---- MODULE Spec2Model ----
(***************************************************************************)
(* A model of progrev_bot.py: the per-chat history store, the relay        *)
(* handlers (cmd_start, cmd_reset, handle_message with ask_groq), the      *)
(* middleware and the endpoints, the signal handler, lifespan and the      *)
(* polling task.  The event loop is cooperative: an action is the code one *)
(* coroutine runs between two suspension points (await).                   *)
(*                                                                         *)
(* A text is a sequence of character codes.  message.text is modelled by   *)
(* the pair has_text (FALSE for None) and text.                            *)
(***************************************************************************)
EXTENDS Integers, Sequences, FiniteSets, TLC

VARIABLES
    chat_histories,    \* chat_histories: chat id -> list of turns (a dict: partial)
    is_shutting_down,  \* the module-level shutdown flag
    stats,             \* stats["total_requests"], stats["errors"]
    webhook_url,       \* TRUE iff WEBHOOK_URL is configured
    phase,             \* "importing", then "import_failed" or "imported";
                       \* then lifespan of the application of line 314, if
                       \* that is the one served: "set_webhook", "running"
                       \* (at the yield) or "startup_failed", then
                       \* "delete_webhook", "session_close", "stopped"
    polling,           \* the start_polling task: "none", "created" (by
                       \* create_task, not yet run), "running", "stopping" (a
                       \* signal asked dp.start_polling to stop), "stopped"
                       \* (it returned) or "exited" (it raised)
    tasks,             \* one record per inbound update: its handler coroutine
    groq_calls,        \* number of completion requests issued so far
    health_log,        \* the answers /health gave, in order
    signals_received,  \* number of termination signals delivered to handle_sigterm
                       \* (the times the loop ran it)
    appended_log,      \* history store harness: the turns appended to each chat
                       \* since the chat was last cleared
    bot_session,       \* bot.session: "open" or "closed"
    app_bound,         \* TRUE iff the name `app` is bound when the decorators of
                       \* the middleware and the endpoints are evaluated
    served,            \* the application the server serves: "none" (yet),
                       \* "app" (the FastAPI of line 314: lifespan, no route,
                       \* no middleware) or "prebound" (the object the name
                       \* `app` was bound to before the import: it got the
                       \* middleware and the routes, it has no lifespan)
    signal_handler,    \* the callback the event loop holds for SIGTERM and
                       \* SIGINT: "server" (what the server installed),
                       \* "handle_sigterm" or "stop_polling" (the dispatcher's)
    signal_callbacks,  \* the callbacks the loop queued for the signals it
                       \* read and has not run yet, in order: for each signal
                       \* the one that was registered when the signal was read
    http_pending       \* requests monitor_requests counted and passed on with
                       \* call_next, whose endpoint has not run yet: /health
                       \* and /metrics

vars == <<chat_histories, is_shutting_down, stats, webhook_url, phase, polling,
          tasks, groq_calls, health_log, signals_received,
          appended_log, bot_session, app_bound, served, signal_handler,
          signal_callbacks, http_pending>>

program_vars == <<chat_histories, is_shutting_down, stats, webhook_url, phase,
                  polling, tasks, groq_calls, health_log, signals_received,
                  bot_session, app_bound, served, signal_handler, signal_callbacks, http_pending>>

program_rest == <<is_shutting_down, stats, webhook_url, phase, polling, tasks,
                  groq_calls, health_log, signals_received, bot_session,
                  app_bound, served, signal_handler, signal_callbacks, http_pending>>

store_harness_vars == <<appended_log>>

----------------------------------------------------------------------------
(* Program constants *)

MAX_HISTORY == 20

MESSAGE_LIMIT == 4096

\* The fixed texts, abbreviated to their first characters
SYSTEM_PROMPT == <<1058, 1099>>

FALLBACK == <<9888, 65039, 32, 1055>>

WELCOME == <<128075, 32, 1055>>

RESET_ACK == <<128260, 32, 1048>>

\* "/start" and "/reset"
START_COMMAND == <<47, 115, 116, 97, 114, 116>>

RESET_COMMAND == <<47, 114, 101, 115, 101, 116>>

----------------------------------------------------------------------------
(* Bounds of the model *)

MaxUpdates == 2

MaxSignals == 2

MaxHealth == 2

MaxAppends == 25

MaxAssistant == 1

MaxRequests == 1

Chats == {1, 2}

Roles == {"user", "assistant"}

Min(a, b) == IF a < b THEN a ELSE b

----------------------------------------------------------------------------
(* The history store *)

Turn(role, content) == [role |-> role, content |-> content]

\* chat_histories.setdefault(chat_id, []): the store after the call
setdefault(h, chat_id) ==
    IF chat_id \in DOMAIN h THEN h ELSE h @@ (chat_id :> <<>>)

\* get_history: the list the call returns
get_history(h, chat_id) == setdefault(h, chat_id)[chat_id]

\* history[-n:]
LastN(s, n) == IF Len(s) <= n THEN s ELSE SubSeq(s, Len(s) - n + 1, Len(s))

add_to_historyKeepOldest(h, chat_id, role, content) ==
    LET h1 == setdefault(h, chat_id)
        history == Append(h1[chat_id], Turn(role, content))
    IN  IF Len(history) > MAX_HISTORY
        THEN [h1 EXCEPT ![chat_id] = SubSeq(history, 1, MAX_HISTORY)]
        ELSE [h1 EXCEPT ![chat_id] = history]

\* add_to_history: the store after the call
add_to_history(h, chat_id, role, content) ==
    LET h1 == setdefault(h, chat_id)
        history == Append(h1[chat_id], Turn(role, content))
    IN  IF Len(history) > MAX_HISTORY
        THEN [h1 EXCEPT ![chat_id] = LastN(history, MAX_HISTORY)]
        ELSE [h1 EXCEPT ![chat_id] = history]

clear_historyNoop(h, chat_id) == setdefault(h, chat_id)

clear_historyEveryChat(h, chat_id) == [d \in DOMAIN h \cup {chat_id} |-> <<>>]

\* clear_history: the store after the call
clear_history(h, chat_id) ==
    LET h1 == IF chat_id \in DOMAIN h
              THEN [d \in DOMAIN h \ {chat_id} |-> h[d]]
              ELSE h
    IN  h1 @@ (chat_id :> <<>>)

----------------------------------------------------------------------------
(* Initial state: the import of the module has run the lines before the     *)
(* middleware and the endpoints: the store, the handlers, stats and the     *)
(* flag are defined                                                         *)

Init ==
    /\ chat_histories = <<>>
    /\ is_shutting_down = FALSE
    /\ stats = [total_requests |-> 0, errors |-> 0]
    /\ webhook_url \in BOOLEAN
    /\ phase = "importing"
    /\ polling = "none"
    /\ tasks = <<>>
    /\ groq_calls = 0
    /\ health_log = <<>>
    /\ signals_received = 0
    /\ appended_log = [c \in Chats |-> <<>>]
    /\ bot_session = "open"
    /\ app_bound \in BOOLEAN
    /\ served = "none"
    /\ signal_handler = "server"
    /\ signal_callbacks = <<>>
    /\ http_pending = [health |-> 0, metrics |-> 0]

----------------------------------------------------------------------------
(* Texts and inbound updates *)

\* A text of n characters whose k-th character depends on k
Text(n) == [k \in 1..n |-> 48 + (k % 10)]

\* reply[i:j]
Slice(s, i, j) == SubSeq(s, i + 1, Min(j, Len(s)))

RECURSIVE Concat(_)
Concat(ss) == IF ss = <<>> THEN <<>> ELSE Head(ss) \o Concat(Tail(ss))

\* message.text of the updates the model delivers: None, "", " ", "hi", the
\* text of the fallback string, "/start", "/reset"
MessageTexts ==
    { [has_text |-> FALSE, text |-> <<>>],
      [has_text |-> TRUE, text |-> <<>>],
      [has_text |-> TRUE, text |-> <<32>>],
      [has_text |-> TRUE, text |-> <<104, 105>>],
      [has_text |-> TRUE, text |-> FALLBACK],
      [has_text |-> TRUE, text |-> START_COMMAND],
      [has_text |-> TRUE, text |-> RESET_COMMAND] }

\* A well-formed update: a message of a chat
Updates ==
    { [valid |-> TRUE, chat |-> c, has_text |-> m.has_text, text |-> m.text] :
          c \in Chats, m \in MessageTexts }

\* A request body that is not JSON or not an Update
MalformedUpdate == [valid |-> FALSE, chat |-> 0, has_text |-> FALSE, text |-> <<>>]

\* The value None, kept apart from every text: no character has the code -1
None == <<-1>>

\* What the completion call can do: raise, return a response whose
\* message.content is a text, or return one whose message.content is None
GroqFailure == [ok |-> FALSE, reply |-> <<>>]

GroqReply(r) == [ok |-> TRUE, reply |-> r]

GroqNoContent == [ok |-> TRUE, reply |-> None]

GroqOutcomes ==
    {GroqFailure, GroqNoContent, GroqReply(<<111, 107>>), GroqReply(FALLBACK),
     GroqReply(Text(MESSAGE_LIMIT + 1))}

\* The handler the dispatcher picks: the filters are tried in registration order
HandlerOf(u) ==
    IF u.has_text /\ u.text = START_COMMAND THEN "cmd_start"
    ELSE IF u.has_text /\ u.text = RESET_COMMAND THEN "cmd_reset"
    ELSE "handle_message"

----------------------------------------------------------------------------
(* Pure parts of the handlers *)

no_user_textNoneOnly(u) == ~u.has_text

\* handle_message: `if not user_text`
no_user_text(u) == ~u.has_text \/ Len(u.text) = 0

\* ask_groq: what it returns for an outcome of the completion call: the
\* content of the response (a text or None), or the fallback string
ask_groq_result(outcome) == IF outcome.ok THEN outcome.reply ELSE FALLBACK

ask_groq_storeRollback(h, chat_id, outcome) ==
    IF outcome.ok THEN add_to_history(h, chat_id, "assistant", outcome.reply)
    ELSE [h EXCEPT ![chat_id] = SubSeq(@, 1, Len(@) - 1)]

ask_groq_storeAlways(h, chat_id, outcome) ==
    add_to_history(h, chat_id, "assistant", ask_groq_result(outcome))

\* ask_groq: the store after the completion call returned or raised
ask_groq_store(h, chat_id, outcome) ==
    IF outcome.ok THEN add_to_history(h, chat_id, "assistant", outcome.reply) ELSE h

ask_groq_messagesHistoryOnly(h, chat_id) == get_history(h, chat_id)

\* ask_groq: the list built for the completion request, a new list
ask_groq_messages(h, chat_id) ==
    <<Turn("system", SYSTEM_PROMPT)>> \o get_history(h, chat_id)

\* handle_message: `len(reply)` raises TypeError
len_raises(reply) == reply = None

first_messageWhole(reply) == reply

\* handle_message: the text of the first message.answer call
first_message(reply) ==
    IF Len(reply) <= MESSAGE_LIMIT THEN reply ELSE Slice(reply, 0, MESSAGE_LIMIT)

\* start_polling: the loop's callback for SIGTERM and SIGINT once
\* dp.start_polling(bot) has started, h being the one before
start_polling_signal_handler(h) == "stop_polling"

handle_sigtermClear(flag) == FALSE

\* handle_sigterm: the flag after the call
handle_sigterm(flag) == IF flag THEN flag ELSE TRUE

\* health: the response for a value of the flag
health(flag) ==
    IF flag THEN [status |-> 503, body |-> "Shutting down"]
    ELSE [status |-> 200, body |-> "OK"]

\* webhook: `if is_shutting_down` at the top of the endpoint
webhook_refuses(flag) == flag

----------------------------------------------------------------------------
(* Handler coroutines.  tasks[t] is the coroutine serving the t-th update:   *)
(*   src      "webhook" (POST /webhook) or "polling" (dp.start_polling)       *)
(*   update   the update                                                     *)
(*   pc       "call_next": monitor_requests awaits call_next;                 *)
(*            "json": webhook awaits the request body; "scheduled": the       *)
(*            polling task was created; "typing": awaits send_chat_action;    *)
(*            "groq": awaits the completion call; "answer": awaits the only   *)
(*            message.answer; "answer_chunk": awaits message.answer in the    *)
(*            loop; "sleep": awaits asyncio.sleep; "done"                     *)
(*   messages the list handed to the completion call (while it is in flight)  *)
(*   reply, i the locals of handle_message                                   *)
(*   emitted  the texts of the message.answer calls made, in order            *)
(*   status   the HTTP status answered (0: none yet; 404: by the              *)
(*            application that has no route)                                  *)
(*   outcome  "none", or what ask_groq returned: "reply" (the text of the     *)
(*            response), "no_content" (None) or "fallback"                    *)
(*   model_reply    the content the completion call returned, if it returned  *)
(*   error    "none", or what raised: "parse", "telegram" or "type"          *)
(*   handled  the update was fed to the dispatcher                            *)
(*   late     is_shutting_down was set when the update arrived (at            *)
(*            monitor_requests, or at the polling loop)                       *)
(*   errors_before  stats["errors"] when the update arrived                   *)
(*   len_before     length of the chat's history when the handler started     *)

NewTask(src, u, pc) ==
    [src |-> src, update |-> u, pc |-> pc, messages |-> <<>>, reply |-> <<>>,
     i |-> 0, emitted |-> <<>>, status |-> 0, outcome |-> "none",
     model_reply |-> <<>>,
     error |-> "none", handled |-> FALSE, late |-> is_shutting_down,
     errors_before |-> stats.errors, len_before |-> 0]

TaskIds == 1..Len(tasks)

\* The handler returned: the webhook endpoint answers 200
Returned(rec) ==
    [rec EXCEPT !.pc = "done", !.status = IF rec.src = "webhook" THEN 200 ELSE 0]

\* The handler or the parsing raised: the webhook endpoint answers 500,
\* the polling dispatcher logs the error
Raised(rec, what) ==
    [rec EXCEPT !.pc = "done", !.error = what,
                !.status = IF rec.src = "webhook" THEN 500 ELSE 0]

\* stats after a coroutine raised
StatsAfterRaise(rec) ==
    IF rec.src = "webhook" THEN [stats EXCEPT !.errors = @ + 1] ELSE stats

----------------------------------------------------------------------------
(* Import, lifecycle, signals, /health, /, /metrics *)

ServedApplications == {"app", "prebound"}

\* The rest of the import: `@app.middleware("http")` and the route decorators
\* are evaluated before `app = FastAPI(...)` is; with the name `app` unbound
\* the first of them raises NameError and the import fails.  With the name
\* bound, the middleware and the routes go to the object it was bound to, and
\* line 314 then binds `app` to a new FastAPI that has lifespan and no route:
\* no object has both.  s is the one the server is given: "app", the module's
\* `app` (what line 329 names), or "prebound".
ImportModule(s) ==
    /\ phase = "importing"
    /\ phase' = IF app_bound THEN "imported" ELSE "import_failed"
    /\ served' = IF app_bound THEN s ELSE "none"
    /\ UNCHANGED <<chat_histories, is_shutting_down, stats, webhook_url, polling,
                   tasks, groq_calls, health_log, signals_received, appended_log,
                   bot_session, app_bound, signal_handler, signal_callbacks, http_pending>>

\* Requests reach monitor_requests and the endpoints: the served object is the
\* one that was decorated; it has no lifespan, so it serves once imported
RoutesServed == served = "prebound" /\ phase = "imported"

\* Requests reach the application of line 314, after its startup: it has no
\* route and no middleware, every request is answered 404 and no line of the
\* middleware or the endpoints runs
AppServed == served = "app" /\ phase = "running"

\* lifespan from its start (it belongs to the application of line 314 and
\* runs when that one is served): the signal handlers are registered; with
\* WEBHOOK_URL it awaits bot.set_webhook, without it it creates the polling
\* task and reaches the yield
LifespanStartup ==
    /\ phase = "imported"
    /\ served = "app"
    /\ phase' = IF webhook_url THEN "set_webhook" ELSE "running"
    /\ polling' = IF webhook_url THEN "none" ELSE "created"
    /\ signal_handler' = "handle_sigterm"
    /\ UNCHANGED <<chat_histories, is_shutting_down, stats, webhook_url, tasks,
                   groq_calls, health_log, signals_received, appended_log,
                   bot_session, app_bound, served, signal_callbacks, http_pending>>

\* lifespan: bot.set_webhook returned and the yield is reached; or it raised
\* and the exception leaves lifespan
SetWebhookDone(ok) ==
    /\ phase = "set_webhook"
    /\ phase' = IF ok THEN "running" ELSE "startup_failed"
    /\ UNCHANGED <<chat_histories, is_shutting_down, stats, webhook_url, polling,
                   tasks, groq_calls, health_log, signals_received, appended_log,
                   bot_session, app_bound, served, signal_handler, signal_callbacks, http_pending>>

\* The loop reads a SIGTERM or SIGINT: it queues the callback that is
\* registered for the signal at this moment, to be run after the callbacks
\* that are ready already.  (A signal read while the server's own callback
\* is in place is the server's to handle.)  lifespan registers
\* handle_sigterm and never removes it; the polling task, once it runs,
\* registers the dispatcher's in its place.
SignalRead ==
    /\ signal_handler # "server"
    /\ signals_received + Len(signal_callbacks) < MaxSignals
    /\ signal_callbacks' = Append(signal_callbacks, signal_handler)
    /\ UNCHANGED <<chat_histories, is_shutting_down, stats, webhook_url, phase,
                   polling, tasks, groq_calls, health_log, signals_received,
                   appended_log, bot_session, app_bound, served, signal_handler,
                   http_pending>>

\* The loop runs a queued handle_sigterm: the callback was queued when the
\* signal was read, whatever is registered by now.  (A polling task that
\* was created was ready before the callback was queued: it takes its first
\* step first, and replaces the registration, not the queued callback.)
HandleSigterm ==
    /\ signal_callbacks # <<>>
    /\ Head(signal_callbacks) = "handle_sigterm"
    /\ polling # "created"
    /\ signal_callbacks' = Tail(signal_callbacks)
    /\ signals_received' = signals_received + 1
    /\ is_shutting_down' = handle_sigterm(is_shutting_down)
    /\ UNCHANGED <<chat_histories, stats, webhook_url, phase, polling, tasks,
                   groq_calls, health_log, appended_log, bot_session,
                   app_bound, served, signal_handler, http_pending>>

\* monitor_requests for GET or HEAD /health: the request is counted, then
\* call_next is awaited
HealthRequest ==
    /\ RoutesServed
    /\ Len(health_log) + http_pending.health < MaxHealth
    /\ stats' = [stats EXCEPT !.total_requests = @ + 1]
    /\ http_pending' = [http_pending EXCEPT !.health = @ + 1]
    /\ UNCHANGED <<chat_histories, is_shutting_down, webhook_url, phase, polling,
                   tasks, groq_calls, health_log, signals_received, appended_log,
                   bot_session, app_bound, served, signal_handler, signal_callbacks>>

\* the endpoint health runs and answers
Health ==
    /\ http_pending.health > 0
    /\ http_pending' = [http_pending EXCEPT !.health = @ - 1]
    /\ health_log' = Append(health_log,
                            [status |-> health(is_shutting_down).status,
                             body |-> health(is_shutting_down).body,
                             signals |-> signals_received])
    /\ UNCHANGED <<chat_histories, is_shutting_down, stats, webhook_url, phase,
                   polling, tasks, groq_calls, signals_received, appended_log,
                   bot_session, app_bound, served, signal_handler, signal_callbacks>>

\* GET or HEAD /health to the application of line 314: 404, nothing runs
HealthNotFound ==
    /\ AppServed
    /\ Len(health_log) < MaxHealth
    /\ health_log' = Append(health_log,
                            [status |-> 404, body |-> "Not Found",
                             signals |-> signals_received])
    /\ UNCHANGED <<chat_histories, is_shutting_down, stats, webhook_url, phase,
                   polling, tasks, groq_calls, signals_received, appended_log,
                   bot_session, app_bound, served, signal_handler, signal_callbacks, http_pending>>

\* GET /: counted by monitor_requests; the endpoint root returns a constant
Root ==
    /\ RoutesServed
    /\ stats.total_requests < MaxRequests
    /\ stats' = [stats EXCEPT !.total_requests = @ + 1]
    /\ UNCHANGED <<chat_histories, is_shutting_down, webhook_url, phase, polling,
                   tasks, groq_calls, health_log, signals_received, appended_log,
                   bot_session, app_bound, served, signal_handler, signal_callbacks, http_pending>>

\* monitor_requests for GET /metrics: the request is counted, then call_next
\* is awaited
MetricsRequest ==
    /\ RoutesServed
    /\ stats.total_requests < MaxRequests
    /\ stats' = [stats EXCEPT !.total_requests = @ + 1]
    /\ http_pending' = [http_pending EXCEPT !.metrics = @ + 1]
    /\ UNCHANGED <<chat_histories, is_shutting_down, webhook_url, phase, polling,
                   tasks, groq_calls, health_log, signals_received, appended_log,
                   bot_session, app_bound, served, signal_handler, signal_callbacks>>

\* the endpoint metrics returned its text, or it raised (psutil) and
\* monitor_requests counts the error and re-raises
Metrics(ok) ==
    /\ http_pending.metrics > 0
    /\ http_pending' = [http_pending EXCEPT !.metrics = @ - 1]
    /\ stats' = IF ok THEN stats ELSE [stats EXCEPT !.errors = @ + 1]
    /\ UNCHANGED <<chat_histories, is_shutting_down, webhook_url, phase, polling,
                   tasks, groq_calls, health_log, signals_received, appended_log,
                   bot_session, app_bound, served, signal_handler, signal_callbacks>>

\* start_polling from its start, up to the first await inside
\* dp.start_polling(bot): called with its defaults (handle_signals=True), the
\* dispatcher registers its own callback for SIGTERM and SIGINT on the loop,
\* in place of the one that was there, and polls
StartPolling ==
    /\ polling = "created"
    /\ polling' = "running"
    /\ signal_handler' = start_polling_signal_handler(signal_handler)
    /\ UNCHANGED <<chat_histories, is_shutting_down, stats, webhook_url, phase,
                   tasks, groq_calls, health_log, signals_received, appended_log,
                   bot_session, app_bound, served, signal_callbacks, http_pending>>

\* The loop runs a queued callback of the dispatcher: polling, if it is
\* running, is asked to stop; handle_sigterm does not run.  (Once polling is
\* over the callback changes nothing.)
StopPollingSignal ==
    /\ signal_callbacks # <<>>
    /\ Head(signal_callbacks) = "stop_polling"
    /\ signal_callbacks' = Tail(signal_callbacks)
    /\ polling' = IF polling = "running" THEN "stopping" ELSE polling
    /\ UNCHANGED <<chat_histories, is_shutting_down, stats, webhook_url, phase,
                   tasks, groq_calls, health_log, signals_received, appended_log,
                   bot_session, app_bound, served, signal_handler, http_pending>>

\* dp.start_polling cancelled its polling, closed bot.session (its default
\* close_bot_session=True) and returned; start_polling returns
PollingStopped ==
    /\ polling = "stopping"
    /\ polling' = "stopped"
    /\ bot_session' = "closed"
    /\ UNCHANGED <<chat_histories, is_shutting_down, stats, webhook_url, phase,
                   tasks, groq_calls, health_log, signals_received, appended_log,
                   app_bound, served, signal_handler, signal_callbacks, http_pending>>

\* start_polling: dp.start_polling raised; the error is logged and the task
\* ends.  The dispatcher closes bot.session on its way out when it raises
\* from its polling (closes), not when it raises before
PollingFails(closes) ==
    /\ polling = "running"
    /\ polling' = "exited"
    /\ bot_session' = IF closes THEN "closed" ELSE bot_session
    /\ UNCHANGED <<chat_histories, is_shutting_down, stats, webhook_url, phase,
                   tasks, groq_calls, health_log, signals_received, appended_log,
                   app_bound, served, signal_handler, signal_callbacks, http_pending>>

\* lifespan resumes after its yield (the server is stopping) and awaits
\* bot.delete_webhook; nothing in the program asks the server to stop
LifespanShutdown ==
    /\ phase = "running"
    /\ phase' = "delete_webhook"
    /\ bot_session' = bot_session
    /\ UNCHANGED <<chat_histories, is_shutting_down, stats, webhook_url, polling,
                   tasks, groq_calls, health_log, signals_received, appended_log,
                   app_bound, served, signal_handler, signal_callbacks, http_pending>>

\* lifespan: bot.delete_webhook returned, bot.session.close is awaited; or it
\* raised, the error is logged and lifespan ends
DeleteWebhookDone(ok) ==
    /\ phase = "delete_webhook"
    /\ phase' = IF ok THEN "session_close" ELSE "stopped"
    /\ bot_session' = bot_session
    /\ UNCHANGED <<chat_histories, is_shutting_down, stats, webhook_url, polling,
                   tasks, groq_calls, health_log, signals_received, appended_log,
                   app_bound, served, signal_handler, signal_callbacks, http_pending>>

\* lifespan: bot.session.close returned or raised; lifespan ends
SessionCloseDone(ok) ==
    /\ phase = "session_close"
    /\ phase' = "stopped"
    /\ bot_session' = IF ok THEN "closed" ELSE bot_session
    /\ UNCHANGED <<chat_histories, is_shutting_down, stats, webhook_url, polling,
                   tasks, groq_calls, health_log, signals_received, appended_log,
                   app_bound, served, signal_handler, signal_callbacks, http_pending>>

----------------------------------------------------------------------------
(* Inbound updates *)

\* monitor_requests for POST /webhook: the request is counted, then call_next
\* is awaited
WebhookRequest(u) ==
    /\ RoutesServed
    /\ Len(tasks) < MaxUpdates
    /\ stats' = [stats EXCEPT !.total_requests = @ + 1]
    /\ tasks' = Append(tasks, NewTask("webhook", u, "call_next"))
    /\ UNCHANGED <<chat_histories, is_shutting_down, webhook_url, phase, polling,
                   groq_calls, health_log, signals_received, appended_log,
                   bot_session, app_bound, served, signal_handler, signal_callbacks, http_pending>>

\* POST /webhook to the application of line 314: 404, nothing runs, the
\* update reaches no handler
WebhookNotFound(u) ==
    /\ AppServed
    /\ Len(tasks) < MaxUpdates
    /\ tasks' = Append(tasks, [NewTask("webhook", u, "done") EXCEPT !.status = 404])
    /\ UNCHANGED <<chat_histories, is_shutting_down, stats, webhook_url, phase,
                   polling, groq_calls, health_log, signals_received, appended_log,
                   bot_session, app_bound, served, signal_handler, signal_callbacks, http_pending>>

\* the endpoint webhook starts: it refuses with 503 if the flag is set, else
\* it awaits the request body
WebhookEndpoint(t) ==
    /\ t \in TaskIds
    /\ tasks[t].pc = "call_next"
    /\ tasks' = [tasks EXCEPT ![t] =
                    IF webhook_refuses(is_shutting_down)
                    THEN [@ EXCEPT !.pc = "done", !.status = 503]
                    ELSE [@ EXCEPT !.pc = "json"]]
    /\ UNCHANGED <<chat_histories, is_shutting_down, stats, webhook_url, phase,
                   polling, groq_calls, health_log, signals_received, appended_log,
                   bot_session, app_bound, served, signal_handler, signal_callbacks, http_pending>>

\* dp.start_polling received an update and created the task that handles it
PollUpdate(u) ==
    /\ polling = "running"
    /\ Len(tasks) < MaxUpdates
    /\ tasks' = Append(tasks, NewTask("polling", u, "scheduled"))
    /\ UNCHANGED <<chat_histories, is_shutting_down, stats, webhook_url, phase,
                   polling, groq_calls, health_log, signals_received, appended_log, bot_session,
                   app_bound, served, signal_handler, signal_callbacks, http_pending>>

\* dp.feed_update: the handler of the update runs up to its first await
FeedUpdate(t) ==
    LET rec == tasks[t]
        u == rec.update
        c == u.chat
        started == [rec EXCEPT !.handled = TRUE,
                               !.len_before = Len(get_history(chat_histories, c))]
    IN  CASE HandlerOf(u) = "cmd_start" ->
                /\ chat_histories' = clear_history(chat_histories, c)
                /\ tasks' = [tasks EXCEPT ![t] =
                                [started EXCEPT !.pc = "answer", !.emitted = <<WELCOME>>]]
          [] HandlerOf(u) = "cmd_reset" ->
                /\ chat_histories' = clear_history(chat_histories, c)
                /\ tasks' = [tasks EXCEPT ![t] =
                                [started EXCEPT !.pc = "answer", !.emitted = <<RESET_ACK>>]]
          [] OTHER ->
                /\ chat_histories' = chat_histories
                /\ tasks' = [tasks EXCEPT ![t] =
                                IF no_user_text(u) THEN Returned(started)
                                ELSE [started EXCEPT !.pc = "typing"]]

\* webhook: the body arrived; parse it and feed the update to the dispatcher
WebhookDispatch(t) ==
    /\ t \in TaskIds
    /\ tasks[t].pc = "json"
    /\ IF tasks[t].update.valid
       THEN /\ FeedUpdate(t)
            /\ stats' = stats
       ELSE /\ tasks' = [tasks EXCEPT ![t] = Raised(tasks[t], "parse")]
            /\ stats' = StatsAfterRaise(tasks[t])
            /\ chat_histories' = chat_histories
    /\ UNCHANGED <<is_shutting_down, webhook_url, phase, polling, groq_calls,
                   health_log, signals_received, appended_log, bot_session,
                   app_bound, served, signal_handler, signal_callbacks, http_pending>>

\* the task created by the polling loop starts to run
PollDispatch(t) ==
    /\ t \in TaskIds
    /\ tasks[t].pc = "scheduled"
    /\ FeedUpdate(t)
    /\ UNCHANGED <<is_shutting_down, stats, webhook_url, phase, polling, groq_calls,
                   health_log, signals_received, appended_log, bot_session,
                   app_bound, served, signal_handler, signal_callbacks, http_pending>>

----------------------------------------------------------------------------
(* handle_message *)

\* send_chat_action returned or raised; on return ask_groq runs up to the
\* await of the completion call
TypingDone(t, ok) ==
    /\ t \in TaskIds
    /\ tasks[t].pc = "typing"
    /\ LET rec == tasks[t]
           c == rec.update.chat
           h1 == add_to_history(chat_histories, c, "user", rec.update.text)
       IN  IF ok
           THEN /\ chat_histories' = h1
                /\ tasks' = [tasks EXCEPT ![t] =
                                [rec EXCEPT !.pc = "groq",
                                            !.messages = ask_groq_messages(h1, c)]]
                /\ groq_calls' = groq_calls + 1
                /\ stats' = stats
           ELSE /\ tasks' = [tasks EXCEPT ![t] = Raised(rec, "telegram")]
                /\ stats' = StatsAfterRaise(rec)
                /\ UNCHANGED <<chat_histories, groq_calls>>
    /\ UNCHANGED <<is_shutting_down, webhook_url, phase, polling, health_log,
                   signals_received, appended_log, bot_session,
                   app_bound, served, signal_handler, signal_callbacks, http_pending>>

\* the completion call returned or raised; ask_groq returns and handle_message
\* runs up to the await of its first message.answer, or raises at
\* `len(reply)` when the content returned (and stored) is None
GroqDone(t, outcome) ==
    /\ t \in TaskIds
    /\ tasks[t].pc = "groq"
    /\ LET rec == tasks[t]
           c == rec.update.chat
           reply == ask_groq_result(outcome)
           returned == [rec EXCEPT !.messages = <<>>,
                                   !.reply = reply,
                                   !.i = 0,
                                   !.outcome = IF ~outcome.ok THEN "fallback"
                                               ELSE IF outcome.reply = None
                                                    THEN "no_content"
                                                    ELSE "reply",
                                   !.model_reply = outcome.reply]
       IN  /\ chat_histories' = ask_groq_store(chat_histories, c, outcome)
           /\ IF len_raises(reply)
              THEN /\ tasks' = [tasks EXCEPT ![t] = Raised(returned, "type")]
                   /\ stats' = StatsAfterRaise(rec)
              ELSE /\ tasks' = [tasks EXCEPT ![t] =
                                   [returned EXCEPT
                                        !.pc = IF Len(reply) <= MESSAGE_LIMIT
                                               THEN "answer" ELSE "answer_chunk",
                                        !.emitted = <<first_message(reply)>>]]
                   /\ stats' = stats
    /\ UNCHANGED <<is_shutting_down, webhook_url, phase, polling, groq_calls,
                   health_log, signals_received, appended_log, bot_session,
                   app_bound, served, signal_handler, signal_callbacks, http_pending>>

\* the only message.answer of a handler returned or raised
AnswerDone(t, ok) ==
    /\ t \in TaskIds
    /\ tasks[t].pc = "answer"
    /\ tasks' = [tasks EXCEPT ![t] =
                    IF ok THEN Returned(tasks[t]) ELSE Raised(tasks[t], "telegram")]
    /\ stats' = IF ok THEN stats ELSE StatsAfterRaise(tasks[t])
    /\ UNCHANGED <<chat_histories, is_shutting_down, webhook_url, phase, polling,
                   groq_calls, health_log, signals_received, appended_log, bot_session,
                   app_bound, served, signal_handler, signal_callbacks, http_pending>>

\* a message.answer of the chunk loop returned or raised
ChunkAnswerDone(t, ok) ==
    /\ t \in TaskIds
    /\ tasks[t].pc = "answer_chunk"
    /\ tasks' = [tasks EXCEPT ![t] =
                    IF ok THEN [tasks[t] EXCEPT !.pc = "sleep"]
                    ELSE Raised(tasks[t], "telegram")]
    /\ stats' = IF ok THEN stats ELSE StatsAfterRaise(tasks[t])
    /\ UNCHANGED <<chat_histories, is_shutting_down, webhook_url, phase, polling,
                   groq_calls, health_log, signals_received, appended_log, bot_session,
                   app_bound, served, signal_handler, signal_callbacks, http_pending>>

\* asyncio.sleep(0.5) is over: the next iteration of the chunk loop, or its end
SleepDone(t) ==
    /\ t \in TaskIds
    /\ tasks[t].pc = "sleep"
    /\ LET rec == tasks[t]
           next_i == rec.i + MESSAGE_LIMIT
       IN  tasks' = [tasks EXCEPT ![t] =
                        IF next_i < Len(rec.reply)
                        THEN [rec EXCEPT !.pc = "answer_chunk", !.i = next_i,
                                         !.emitted = Append(@, Slice(rec.reply, next_i,
                                                                next_i + MESSAGE_LIMIT))]
                        ELSE Returned(rec)]
    /\ UNCHANGED <<chat_histories, is_shutting_down, stats, webhook_url, phase,
                   polling, groq_calls, health_log, signals_received, appended_log, bot_session,
                   app_bound, served, signal_handler, signal_callbacks, http_pending>>

----------------------------------------------------------------------------
(* The program *)

\* Every step of the program, for every input of the model
Next ==
    \/ \E s \in ServedApplications : ImportModule(s)
    \/ LifespanStartup
    \/ \E ok \in BOOLEAN : SetWebhookDone(ok)
    \/ SignalRead
    \/ HandleSigterm
    \/ HealthRequest
    \/ Health
    \/ HealthNotFound
    \/ Root
    \/ MetricsRequest
    \/ \E ok \in BOOLEAN : Metrics(ok)
    \/ StartPolling
    \/ StopPollingSignal
    \/ PollingStopped
    \/ \E closes \in BOOLEAN : PollingFails(closes)
    \/ LifespanShutdown
    \/ \E ok \in BOOLEAN : DeleteWebhookDone(ok)
    \/ \E ok \in BOOLEAN : SessionCloseDone(ok)
    \/ \E u \in Updates \cup {MalformedUpdate} : WebhookRequest(u)
    \/ \E u \in Updates \cup {MalformedUpdate} : WebhookNotFound(u)
    \/ \E u \in Updates : PollUpdate(u)
    \/ \E t \in 1..MaxUpdates : WebhookEndpoint(t)
    \/ \E t \in 1..MaxUpdates : WebhookDispatch(t)
    \/ \E t \in 1..MaxUpdates : PollDispatch(t)
    \/ \E t \in 1..MaxUpdates, ok \in BOOLEAN : TypingDone(t, ok)
    \/ \E t \in 1..MaxUpdates, outcome \in GroqOutcomes : GroqDone(t, outcome)
    \/ \E t \in 1..MaxUpdates, ok \in BOOLEAN : AnswerDone(t, ok)
    \/ \E t \in 1..MaxUpdates, ok \in BOOLEAN : ChunkAnswerDone(t, ok)
    \/ \E t \in 1..MaxUpdates : SleepDone(t)

Spec == Init /\ [][Next]_vars

(* The relay: updates of every kind, for two chats, pushed or polled, handled *)
(* concurrently; the completion call fails or returns a reply within the      *)
(* message limit; every call of the Telegram API may raise.                   *)

ShortOutcomes ==
    {GroqFailure, GroqNoContent, GroqReply(<<111, 107>>), GroqReply(FALLBACK)}

NextRelay ==
    \/ \E s \in ServedApplications : ImportModule(s)
    \/ LifespanStartup
    \/ StartPolling
    \/ \E ok \in BOOLEAN : SetWebhookDone(ok)
    \/ Root
    \/ MetricsRequest
    \/ \E ok \in BOOLEAN : Metrics(ok)
    \/ \E u \in Updates \cup {MalformedUpdate} : WebhookRequest(u)
    \/ \E u \in Updates \cup {MalformedUpdate} : WebhookNotFound(u)
    \/ \E u \in Updates : PollUpdate(u)
    \/ \E t \in 1..MaxUpdates : WebhookEndpoint(t)
    \/ \E t \in 1..MaxUpdates : WebhookDispatch(t)
    \/ \E t \in 1..MaxUpdates : PollDispatch(t)
    \/ \E t \in 1..MaxUpdates, ok \in BOOLEAN : TypingDone(t, ok)
    \/ \E t \in 1..MaxUpdates, outcome \in ShortOutcomes : GroqDone(t, outcome)
    \/ \E t \in 1..MaxUpdates, ok \in BOOLEAN : AnswerDone(t, ok)

SpecRelay == Init /\ [][NextRelay]_vars

(* The lifecycle: signals, /health, pushed and polled updates of one chat.    *)

LifecycleUpdates ==
    {u \in Updates : u.chat = 1 /\ u.has_text /\ u.text \in {<<104, 105>>, RESET_COMMAND}}

NextLifecycle ==
    \/ \E s \in ServedApplications : ImportModule(s)
    \/ LifespanStartup
    \/ \E ok \in BOOLEAN : SetWebhookDone(ok)
    \/ SignalRead
    \/ HandleSigterm
    \/ HealthRequest
    \/ Health
    \/ HealthNotFound
    \/ Root
    \/ MetricsRequest
    \/ \E ok \in BOOLEAN : Metrics(ok)
    \/ StartPolling
    \/ StopPollingSignal
    \/ PollingStopped
    \/ \E closes \in BOOLEAN : PollingFails(closes)
    \/ \E u \in LifecycleUpdates \cup {MalformedUpdate} : WebhookRequest(u)
    \/ \E u \in LifecycleUpdates \cup {MalformedUpdate} : WebhookNotFound(u)
    \/ \E u \in LifecycleUpdates : PollUpdate(u)
    \/ \E t \in 1..MaxUpdates : WebhookEndpoint(t)
    \/ \E t \in 1..MaxUpdates : WebhookDispatch(t)
    \/ \E t \in 1..MaxUpdates : PollDispatch(t)
    \/ \E t \in 1..MaxUpdates, ok \in BOOLEAN : TypingDone(t, ok)
    \/ \E t \in 1..MaxUpdates, outcome \in ShortOutcomes : GroqDone(t, outcome)
    \/ \E t \in 1..MaxUpdates, ok \in BOOLEAN : AnswerDone(t, ok)

SpecLifecycle == Init /\ [][NextLifecycle]_vars

(* The chunk loop: messages of one chat, each sent after the one before was   *)
(* answered, with replies of lengths around the multiples of the message      *)
(* limit.                                                                     *)

ChunkLengths ==
    {0, 1, MESSAGE_LIMIT - 1, MESSAGE_LIMIT, MESSAGE_LIMIT + 1,
     2 * MESSAGE_LIMIT - 1, 2 * MESSAGE_LIMIT, 2 * MESSAGE_LIMIT + 1}

ChunkOutcomes ==
    {GroqFailure, GroqNoContent} \cup {GroqReply(Text(n)) : n \in ChunkLengths}

ChunkUpdates == {u \in Updates : u.chat = 1 /\ u.has_text /\ u.text = <<104, 105>>}

NextChunk ==
    \/ \E s \in ServedApplications : ImportModule(s)
    \/ LifespanStartup
    \/ \E ok \in BOOLEAN : SetWebhookDone(ok)
    \/ \E u \in ChunkUpdates :
           (\A t \in TaskIds : tasks[t].pc = "done") /\ WebhookRequest(u)
    \/ \E u \in ChunkUpdates : WebhookNotFound(u)
    \/ \E t \in 1..MaxUpdates : WebhookEndpoint(t)
    \/ \E t \in 1..MaxUpdates : WebhookDispatch(t)
    \/ \E t \in 1..MaxUpdates, ok \in BOOLEAN : TypingDone(t, ok)
    \/ \E t \in 1..MaxUpdates, outcome \in ChunkOutcomes : GroqDone(t, outcome)
    \/ \E t \in 1..MaxUpdates, ok \in BOOLEAN : AnswerDone(t, ok)
    \/ \E t \in 1..MaxUpdates, ok \in BOOLEAN : ChunkAnswerDone(t, ok)
    \/ \E t \in 1..MaxUpdates : SleepDone(t)

SpecChunk == Init /\ [][NextChunk]_vars

(* The relay with a long history: as the relay, but chat 1 may start with a   *)
(* history one turn below the cap or at the cap, as earlier exchanges left    *)
(* it, so that appends trim.                                                  *)

\* The history n turns of earlier exchanges leave: user and assistant turns in
\* turn, the k-th with the one-letter text <<96 + k>>
Exchanges(n) ==
    [k \in 1..n |-> Turn(IF k % 2 = 1 THEN "user" ELSE "assistant", <<96 + k>>)]

InitLongHistory ==
    /\ chat_histories \in {<<>>, 1 :> Exchanges(MAX_HISTORY - 1),
                           1 :> Exchanges(MAX_HISTORY)}
    /\ is_shutting_down = FALSE
    /\ stats = [total_requests |-> 0, errors |-> 0]
    /\ webhook_url \in BOOLEAN
    /\ phase = "importing"
    /\ polling = "none"
    /\ tasks = <<>>
    /\ groq_calls = 0
    /\ health_log = <<>>
    /\ signals_received = 0
    /\ appended_log = [c \in Chats |-> <<>>]
    /\ bot_session = "open"
    /\ app_bound \in BOOLEAN
    /\ served = "none"
    /\ signal_handler = "server"
    /\ signal_callbacks = <<>>
    /\ http_pending = [health |-> 0, metrics |-> 0]

SpecLongHistory == InitLongHistory /\ [][NextRelay]_vars

(* The transport: startup in either mode, signals, a failure of polling, the  *)
(* end of the server, requests, and messages of one chat, pushed or polled,   *)
(* each sent after the one before was handled.  A step the                    *)
(* program itself takes is eventually taken: an awaited call returns or        *)
(* raises, a created coroutine gets to run.  Signals, requests, updates, the   *)
(* failure of polling and the end of the server come from outside and need     *)
(* not happen.                                                                 *)

TransportUpdates == {u \in Updates : u.chat = 1 /\ u.has_text /\ u.text = <<104, 105>>}

\* The steps of the program that need nothing from outside to happen: a
\* queued callback runs, an awaited call returns or raises.  (SignalRead is
\* not one: the signal comes from outside; nor is WebhookDispatch: the
\* request body comes from the client.)
ProgramStep ==
    \/ \E s \in ServedApplications : ImportModule(s)
    \/ LifespanStartup
    \/ HandleSigterm
    \/ StartPolling
    \/ StopPollingSignal
    \/ PollingStopped
    \/ \E ok \in BOOLEAN : SetWebhookDone(ok)
    \/ Health
    \/ \E ok \in BOOLEAN : Metrics(ok)
    \/ \E ok \in BOOLEAN : DeleteWebhookDone(ok)
    \/ \E ok \in BOOLEAN : SessionCloseDone(ok)
    \/ \E t \in 1..MaxUpdates : WebhookEndpoint(t)
    \/ \E t \in 1..MaxUpdates : PollDispatch(t)
    \/ \E t \in 1..MaxUpdates, ok \in BOOLEAN : TypingDone(t, ok)
    \/ \E t \in 1..MaxUpdates, outcome \in ShortOutcomes : GroqDone(t, outcome)
    \/ \E t \in 1..MaxUpdates, ok \in BOOLEAN : AnswerDone(t, ok)

NextTransport ==
    \/ \E s \in ServedApplications : ImportModule(s)
    \/ LifespanStartup
    \/ \E ok \in BOOLEAN : SetWebhookDone(ok)
    \/ SignalRead
    \/ HandleSigterm
    \/ StartPolling
    \/ StopPollingSignal
    \/ PollingStopped
    \/ \E closes \in BOOLEAN : PollingFails(closes)
    \/ HealthRequest
    \/ Health
    \/ HealthNotFound
    \/ Root
    \/ MetricsRequest
    \/ \E ok \in BOOLEAN : Metrics(ok)
    \/ LifespanShutdown
    \/ \E ok \in BOOLEAN : DeleteWebhookDone(ok)
    \/ \E ok \in BOOLEAN : SessionCloseDone(ok)
    \/ \E u \in TransportUpdates :
           (\A t \in TaskIds : tasks[t].pc = "done") /\ WebhookRequest(u)
    \/ \E u \in TransportUpdates : WebhookNotFound(u)
    \/ \E u \in TransportUpdates :
           (\A t \in TaskIds : tasks[t].pc = "done") /\ PollUpdate(u)
    \/ \E t \in 1..MaxUpdates : WebhookEndpoint(t)
    \/ \E t \in 1..MaxUpdates : WebhookDispatch(t)
    \/ \E t \in 1..MaxUpdates : PollDispatch(t)
    \/ \E t \in 1..MaxUpdates, ok \in BOOLEAN : TypingDone(t, ok)
    \/ \E t \in 1..MaxUpdates, outcome \in ShortOutcomes : GroqDone(t, outcome)
    \/ \E t \in 1..MaxUpdates, ok \in BOOLEAN : AnswerDone(t, ok)

SpecTransport == Init /\ [][NextTransport]_vars /\ WF_vars(ProgramStep)

----------------------------------------------------------------------------
(* History store harness: add_to_history and clear_history called directly, *)
(* in any order, on any chat.  The k-th turn appended to a chat since its    *)
(* last clear carries the text <<k>> ("message k").                          *)

AssistantTurns(c) ==
    Cardinality({k \in 1..Len(appended_log[c]) : appended_log[c][k].role = "assistant"})

TotalAppends == Len(appended_log[1]) + Len(appended_log[2])

StoreAppend(c, role) ==
    /\ TotalAppends < MaxAppends
    /\ role = "assistant" => AssistantTurns(1) + AssistantTurns(2) < MaxAssistant
    /\ LET content == <<Len(appended_log[c]) + 1>>
       IN  /\ chat_histories' = add_to_history(chat_histories, c, role, content)
           /\ appended_log' = [appended_log EXCEPT ![c] = Append(@, Turn(role, content))]
    /\ UNCHANGED program_rest

StoreClear(c) ==
    /\ chat_histories' = clear_history(chat_histories, c)
    /\ appended_log' = [appended_log EXCEPT ![c] = <<>>]
    /\ UNCHANGED program_rest

NextStore ==
    \/ \E c \in Chats, role \in Roles : StoreAppend(c, role)
    \/ \E c \in Chats : StoreClear(c)

SpecStore == Init /\ [][NextStore]_vars

\* C1: each chat's stored history has at most MAX_HISTORY turns, and it is
\* exactly the most recent turns appended since the chat was last cleared, at
\* most MAX_HISTORY of them, in their original order; once more than
\* MAX_HISTORY turns were appended the oldest ones are no longer stored.
HistoryCap ==
    \A c \in Chats :
        LET stored == get_history(chat_histories, c)
            n == Len(appended_log[c])
        IN  /\ Len(stored) <= MAX_HISTORY
            /\ stored = LastN(appended_log[c], MAX_HISTORY)
            /\ n > MAX_HISTORY
                   => /\ Len(stored) = MAX_HISTORY
                      /\ \A j \in 1..MAX_HISTORY :
                             stored[j] = appended_log[c][n - MAX_HISTORY + j]
                      /\ \A k \in 1..(n - MAX_HISTORY) :
                             \A j \in 1..Len(stored) : stored[j] # appended_log[c][k]

\* 25 turns were appended to one chat: "message 1" is gone, "message 25" is stored
HistoryCapWitness ==
    \E c \in Chats :
        /\ Len(appended_log[c]) = MAX_HISTORY + 5
        /\ Len(chat_histories[c]) = MAX_HISTORY
        /\ chat_histories[c][1].content = <<6>>
        /\ chat_histories[c][MAX_HISTORY].content = <<MAX_HISTORY + 5>>
        /\ \A j \in 1..MAX_HISTORY : chat_histories[c][j].content # <<1>>

----------------------------------------------------------------------------
(* Vocabulary of the claims *)

IsMessage(rec) == rec.update.valid /\ HandlerOf(rec.update) = "handle_message"

IsCommand(rec) ==
    rec.update.valid /\ HandlerOf(rec.update) \in {"cmd_start", "cmd_reset"}

FixedMessage(rec) ==
    IF HandlerOf(rec.update) = "cmd_start" THEN WELCOME ELSE RESET_ACK

HasText(rec) == rec.update.has_text /\ Len(rec.update.text) > 0

\* All characters are white space (so is the empty text)
IsBlank(text) == \A k \in 1..Len(text) : text[k] \in {9, 10, 13, 32}

\* The coroutine is suspended inside its handler
InHandler(rec) == rec.pc \in {"typing", "groq", "answer", "answer_chunk", "sleep"}

\* The step changed (or created) the t-th coroutine
Stepped(t) == t > Len(tasks) \/ tasks'[t] # tasks[t]

CeilDiv(a, b) == (a + b - 1) \div b

LastTurn(h) == h[Len(h)]

----------------------------------------------------------------------------
(* C2 *)

\* C2: updates of one chat are handled strictly one at a time: while a
\* handle_message call for chat c is suspended in the completion call, no
\* other update of chat c is dispatched, so chat c's history is still what the
\* call left when it appended its user turn.
OneUpdateAtATimePerChat ==
    \A t \in TaskIds :
        tasks[t].pc = "groq"
            => /\ get_history(chat_histories, tasks[t].update.chat) = Tail(tasks[t].messages)
               /\ \A t2 \in TaskIds \ {t} :
                      (tasks[t2].update.valid
                       /\ tasks[t2].update.chat = tasks[t].update.chat)
                          => ~InHandler(tasks[t2])

----------------------------------------------------------------------------
(* C3 *)

\* C3: every handle_message call with a non-empty text ends without an error
\* escaping it and has emitted text: the model's reply, or exactly the
\* fallback string when the completion call failed.
AlwaysAnswers ==
    \A t \in TaskIds :
        LET rec == tasks[t]
        IN  (IsMessage(rec) /\ HasText(rec) /\ rec.handled)
                => /\ rec.error = "none"
                   /\ rec.pc = "done"
                          => /\ rec.emitted # <<>>
                             /\ rec.outcome = "reply" => Concat(rec.emitted) = rec.model_reply
                             /\ rec.outcome = "fallback" => rec.emitted = <<FALLBACK>>

----------------
(* C4 *)

\* C4 as stated: when the completion call of a handle_message call is over,
\* the chat's history ends with the user turn followed by the assistant turn
\* that holds the text emitted to the chat.
AssistantTurnAlwaysStored ==
    [][\A t \in TaskIds :
          (tasks[t].pc = "groq" /\ tasks'[t].pc # "groq")
              => LET h == get_history(chat_histories', tasks[t].update.chat)
                 IN  /\ Len(h) >= 2
                     /\ h[Len(h)] = Turn("assistant", Concat(tasks'[t].emitted))
                     /\ h[Len(h) - 1] = Turn("user", tasks[t].update.text)]_vars

\* C4, amended: the user turn is appended before the completion call (a fresh
\* chat's history is then exactly that turn).  When the call returns a reply,
\* the reply is appended as an assistant turn, the chat's history ends with
\* it, directly after the user turn unless another handler changed the chat's
\* history during the call, and the reply is the text emitted.  When the call
\* fails, the fallback string is emitted and no turn is appended.  When the
\* call returns a response without content (None), None is appended as the
\* assistant turn and nothing is emitted: handle_message raises.
AssistantTurnStoredOnSuccess ==
    [][\A t \in TaskIds :
          LET rec == tasks[t]
              c == rec.update.chat
              before == get_history(chat_histories, c)
              after == get_history(chat_histories', c)
          IN  /\ (rec.pc = "typing" /\ tasks'[t].pc = "groq")
                     => /\ after # <<>>
                        /\ LastTurn(after) = Turn("user", rec.update.text)
                        /\ before = <<>> => after = <<Turn("user", rec.update.text)>>
                        /\ tasks'[t].messages = <<Turn("system", SYSTEM_PROMPT)>> \o after
              /\ (rec.pc = "groq" /\ tasks'[t].pc # "groq")
                     => IF tasks'[t].outcome \in {"reply", "no_content"}
                        THEN /\ after # <<>>
                             /\ LastTurn(after) = Turn("assistant", tasks'[t].model_reply)
                             /\ IF tasks'[t].outcome = "reply"
                                THEN Concat(tasks'[t].emitted) = tasks'[t].model_reply
                                ELSE /\ tasks'[t].model_reply = None
                                     /\ tasks'[t].emitted = <<>>
                                     /\ tasks'[t].error = "type"
                             /\ before = Tail(rec.messages)
                                    => /\ Len(after) >= 2
                                       /\ after[Len(after) - 1] = Turn("user", rec.update.text)
                        ELSE /\ chat_histories' = chat_histories
                             /\ tasks'[t].emitted = <<FALLBACK>>]_vars

\* "hi" to a fresh chat: the history is [user "hi", assistant reply] and the
\* reply was emitted
AssistantTurnWitness ==
    \E t \in TaskIds :
        /\ IsMessage(tasks[t]) /\ tasks[t].outcome = "reply"
        /\ tasks[t].pc = "done" /\ tasks[t].error = "none"
        /\ tasks[t].len_before = 0
        /\ tasks[t].update.chat \in DOMAIN chat_histories
        /\ chat_histories[tasks[t].update.chat] =
               <<Turn("user", tasks[t].update.text),
                 Turn("assistant", Concat(tasks[t].emitted))>>

----------------------------------------------------------------------------
(* C5 *)

\* handle_message made all its message.answer calls: the only one, or the one
\* of the last iteration of the chunk loop
AllIssued(rec) ==
    /\ rec.pc = "done"
    /\ rec.outcome \in {"reply", "fallback"}
    /\ rec.i + MESSAGE_LIMIT >= Len(rec.reply)

\* Each message has at most MESSAGE_LIMIT characters and the messages, put
\* together in emission order, are the reply
ChunksRebuild(rec) ==
    /\ \A k \in 1..Len(rec.emitted) : Len(rec.emitted[k]) <= MESSAGE_LIMIT
    /\ Concat(rec.emitted) = rec.reply

\* C5 as stated: a reply of length L is emitted as exactly ceil(L/4096)
\* messages of at most 4096 characters each, which put together are the reply.
ChunkCountIsCeil ==
    \A t \in TaskIds :
        LET rec == tasks[t]
        IN  AllIssued(rec)
                => /\ Len(rec.emitted) = CeilDiv(Len(rec.reply), MESSAGE_LIMIT)
                   /\ ChunksRebuild(rec)

\* C5, amended: a reply of length L >= 1 is emitted as exactly ceil(L/4096)
\* messages and an empty reply (L = 0) as one message.answer call with the
\* empty text; each message has at most 4096 characters and the messages put
\* together in emission order are the reply.  (A message is a message.answer
\* call.)  While the handler is running, or when a message.answer call raised
\* before the last chunk, the messages emitted so far are full chunks that put
\* together are a prefix of the reply.
ChunkCountIsCeilOrOne ==
    \A t \in TaskIds :
        LET rec == tasks[t]
            sent == Concat(rec.emitted)
        IN  /\ (AllIssued(rec) \/ (rec.pc = "done" /\ rec.error = "none" /\ rec.handled))
                   => /\ Len(rec.emitted) = IF Len(rec.reply) = 0 THEN 1
                                            ELSE CeilDiv(Len(rec.reply), MESSAGE_LIMIT)
                      /\ ChunksRebuild(rec)
            /\ rec.outcome # "none"
                   => /\ \A k \in 1..Len(rec.emitted) : Len(rec.emitted[k]) <= MESSAGE_LIMIT
                      /\ \A k \in 1..(Len(rec.emitted) - 1) :
                             Len(rec.emitted[k]) = MESSAGE_LIMIT
                      /\ Len(sent) <= Len(rec.reply)
                      /\ sent = SubSeq(rec.reply, 1, Len(sent))

\* A reply of 2 * 4096 + 1 characters went out as three messages
ChunkCountWitness ==
    \E t \in TaskIds :
        /\ tasks[t].pc = "done" /\ tasks[t].error = "none"
        /\ Len(tasks[t].reply) = 2 * MESSAGE_LIMIT + 1
        /\ Len(tasks[t].emitted) = 3
        /\ Len(tasks[t].emitted[3]) = 1

----------------------------------------------------------------------------
(* C6 *)

\* C6 as stated: a step of the handler of a message whose text is absent,
\* empty or white space only changes no history, issues no completion
\* request and emits nothing.
BlankTextHasNoEffect ==
    [][\A t \in 1..Len(tasks') :
          LET rec == tasks'[t]
          IN  (/\ IsMessage(rec)
               /\ ~rec.update.has_text \/ IsBlank(rec.update.text)
               /\ Stepped(t))
                  => /\ chat_histories' = chat_histories
                     /\ groq_calls' = groq_calls
                     /\ rec.emitted = <<>>]_vars

\* C6, amended: a message whose text is absent or empty leaves every chat's
\* history unchanged, issues no completion request and emits nothing: its
\* handler returns at once.  (A text of white space only is handled like any
\* other text.)
NoTextHasNoEffect ==
    [][\A t \in 1..Len(tasks') :
          LET rec == tasks'[t]
          IN  (/\ IsMessage(rec)
               /\ ~rec.update.has_text \/ Len(rec.update.text) = 0
               /\ Stepped(t))
                  => /\ chat_histories' = chat_histories
                     /\ groq_calls' = groq_calls
                     /\ rec.emitted = <<>>
                     /\ rec.messages = <<>>
                     /\ rec.error = "none"
                     /\ rec.handled => rec.pc = "done"]_vars

\* An empty text was handled for a chat that has a history: nothing changed
NoTextWitness ==
    \E t \in TaskIds :
        /\ IsMessage(tasks[t])
        /\ tasks[t].update.has_text /\ tasks[t].update.text = <<>>
        /\ tasks[t].handled /\ tasks[t].pc = "done"
        /\ tasks[t].len_before = 2
        /\ Len(get_history(chat_histories, tasks[t].update.chat)) = 2
        /\ tasks[t].emitted = <<>>
        /\ groq_calls = 1

----------------------------------------------------------------------------
(* C7 *)

\* C7: clear_history then get_history gives the empty list whatever the chat
\* held, also for a chat never seen; clearing twice is clearing once; /start
\* and /reset clear the chat's history and emit exactly one fixed message.
ClearThenGetIsEmpty ==
    [][/\ \A c \in Chats :
              /\ get_history(clear_history(chat_histories, c), c) = <<>>
              /\ clear_history(clear_history(chat_histories, c), c)
                     = clear_history(chat_histories, c)
              /\ \A d \in DOMAIN chat_histories \ {c} :
                     clear_history(chat_histories, c)[d] = chat_histories[d]
       /\ \A t \in TaskIds :
              LET rec == tasks[t]
                  c == rec.update.chat
              IN  IsCommand(rec)
                      => /\ (~rec.handled /\ tasks'[t].handled)
                                => /\ c \in DOMAIN chat_histories'
                                   /\ chat_histories'[c] = <<>>
                                   /\ chat_histories' = clear_history(chat_histories, c)
                                   /\ tasks'[t].emitted = <<FixedMessage(rec)>>
                                   /\ groq_calls' = groq_calls
                         /\ rec.handled => tasks'[t].emitted = <<FixedMessage(rec)>>
                         /\ ~tasks'[t].handled => tasks'[t].emitted = <<>>]_vars

\* /reset emptied a history of two turns and emitted its one message
ClearWitness ==
    \E t1 \in TaskIds : \E t2 \in TaskIds :
        /\ IsCommand(tasks[t2]) /\ HandlerOf(tasks[t2].update) = "cmd_reset"
        /\ tasks[t2].pc = "done" /\ tasks[t2].error = "none"
        /\ tasks[t2].len_before = 2
        /\ tasks[t2].emitted = <<RESET_ACK>>
        /\ chat_histories[tasks[t2].update.chat] = <<>>
        /\ tasks[t1].outcome = "reply"
        /\ tasks[t1].update.chat = tasks[t2].update.chat

----------------------------------------------------------------------------
(* C8 *)

\* C8: /health answers 200 "OK" before any termination signal was received
\* and 503 "Shutting down" after one was; after a 503 it never answers 200
\* again, the flag is never reset.  (An answer goes by the signals received
\* when the endpoint runs, which is after monitor_requests counted the call.)
HealthFollowsSignal ==
    /\ is_shutting_down = (signals_received > 0)
    /\ \A k \in 1..Len(health_log) :
           /\ health_log[k].signals = 0
                  => health_log[k].status = 200 /\ health_log[k].body = "OK"
           /\ health_log[k].signals > 0
                  => health_log[k].status = 503 /\ health_log[k].body = "Shutting down"
           /\ \A j \in 1..(k - 1) :
                  health_log[j].status = 503 => health_log[k].status = 503

----------------------------------------------------------------------------
(* C9 *)

\* C9: a POST /webhook is answered once: 503 if the shutdown flag is set when
\* the endpoint starts, so for every request that arrives after the flag was
\* set (the update is not fed to the dispatcher, no history changes),
\* otherwise 500 if parsing or handling the update raises (counted in
\* stats["errors"]), otherwise 200; after a 500 the service is still running.
WebhookOutcome ==
    [][/\ phase = "running" => phase' = "running"
       /\ \A t \in 1..Len(tasks') :
              LET rec == tasks'[t]
              IN  rec.src = "webhook"
                      => /\ t > Len(tasks)
                                => rec.status = 0 /\ rec.pc = "call_next" /\ ~rec.handled
                         /\ (t <= Len(tasks) /\ tasks[t].pc = "call_next"
                                             /\ rec.pc # "call_next")
                                => IF is_shutting_down
                                   THEN /\ rec.status = 503 /\ rec.pc = "done"
                                        /\ ~rec.handled
                                        /\ chat_histories' = chat_histories
                                        /\ groq_calls' = groq_calls
                                   ELSE rec.status = 0 /\ rec.pc = "json"
                         /\ (t <= Len(tasks) /\ tasks[t].status # 0) => rec = tasks[t]
                         /\ (t <= Len(tasks) /\ tasks[t].status = 0
                                             /\ rec.status \in {200, 500})
                                => /\ rec.status = IF rec.error = "none" THEN 200 ELSE 500
                                   /\ stats'.errors = stats.errors
                                          + (IF rec.status = 500 THEN 1 ELSE 0)
                         /\ rec.pc = "done" <=> rec.status \in {200, 500, 503}
                         /\ (rec.late /\ rec.pc # "call_next") => rec.status = 503
                         /\ rec.status = 503 => (~rec.handled /\ is_shutting_down')
                         /\ rec.status = 500 <=> rec.error # "none"
                         /\ rec.status = 500
                                => rec.error \in {"parse", "telegram", "type"}]_vars

----------------------------------------------------------------------------
(* C10 *)

\* C10: once the shutdown flag is set no new inbound update is handed to a
\* handler, in push mode and in pull mode alike: no update that arrives
\* after the flag was set (at monitor_requests, at the application that has
\* no route, or at the polling loop) is fed to a handler.
NoHandlerAfterShutdown ==
    [][\A t \in 1..Len(tasks') : tasks'[t].late => ~tasks'[t].handled]_vars

----------------------------------------------------------------------------
(* C11 *)

\* The transport is stopped: lifespan ended, no polling task is running and
\* the bot's network session is closed
Stopped ==
    /\ phase = "stopped"
    /\ polling \notin {"created", "running", "stopping"}
    /\ bot_session = "closed"

\* C11: after a termination signal was received the transport eventually is
\* stopped: the polling task, if one is running, is cancelled and awaited and
\* the bot's network session is released.
SignalLeadsToStopped == (signals_received > 0) ~> Stopped

----------------------------------------------------------------------------
(* C12 *)

\* C12: whenever polling failed while no shutdown was requested, polling is
\* eventually running again, unless a shutdown is requested or the server
\* stops meanwhile.
PollingRestarts ==
    (polling = "exited" /\ ~is_shutting_down)
        ~> (polling = "running" \/ is_shutting_down \/ phase # "running")

----------------------------------------------------------------------------
(* C13 *)

\* C13: the shutdown flag is set by the first termination signal and never
\* reset; a later signal (SIGTERM or SIGINT, the same handler) changes nothing
\* in the program: not the flag, not the tasks, histories, counters, polling
\* task, lifespan or session.  (signals_received only counts the deliveries.)
ShutdownAtMostOnce ==
    [][/\ is_shutting_down => is_shutting_down'
       /\ signals_received' # signals_received
              => /\ is_shutting_down'
                 /\ is_shutting_down <=> signals_received > 0
                 /\ UNCHANGED <<chat_histories, stats, webhook_url, phase, polling,
                                tasks, groq_calls, health_log, bot_session,
                                served, signal_handler, http_pending>>
       /\ (is_shutting_down' /\ ~is_shutting_down)
              => signals_received = 0 /\ signals_received' = 1]_vars

\* A second signal was delivered after the flag was set, while the server
\* was running
SecondSignalWitness ==
    /\ signals_received = 2
    /\ is_shutting_down
    /\ phase = "running"

----------------
(* C14 *)

\* C14: exactly one delivery mode is active: with WEBHOOK_URL configured no
\* polling task exists and only pushed updates reach the dispatcher; without
\* it only polled updates do, POST /webhook hands nothing to the dispatcher.
ExactlyOneMode ==
    /\ webhook_url => polling = "none"
    /\ \A t \in TaskIds :
           tasks[t].handled => (tasks[t].src = "webhook" <=> webhook_url)

----------------------------------------------------------------------------
(* C15 *)

\* C15: the list handed to a completion request is the system turn followed
\* by the chat's history right after the user turn was appended; building it
\* changes no history beyond that append; it stays what it was while the
\* request is in flight, whatever is appended to, trimmed from or cleared in
\* the chat's history meanwhile; no stored turn is a system turn.
MessagesAreSnapshot ==
    [][/\ \A t \in TaskIds :
              LET rec == tasks[t]
                  c == rec.update.chat
              IN  /\ (rec.pc = "typing" /\ tasks'[t].pc = "groq")
                         => /\ chat_histories'
                                   = add_to_history(chat_histories, c, "user", rec.update.text)
                            /\ tasks'[t].messages
                                   = <<Turn("system", SYSTEM_PROMPT)>> \o chat_histories'[c]
                            /\ LastTurn(tasks'[t].messages) = Turn("user", rec.update.text)
                  /\ (rec.pc = "groq" /\ tasks'[t].pc = "groq")
                         => tasks'[t].messages = rec.messages
                  /\ rec.pc = "groq"
                         => /\ Head(rec.messages) = Turn("system", SYSTEM_PROMPT)
                            /\ \A k \in 2..Len(rec.messages) :
                                   rec.messages[k].role \in Roles
       /\ \A c \in DOMAIN chat_histories' :
              \A k \in 1..Len(chat_histories'[c]) : chat_histories'[c][k].role \in Roles]_vars

\* While a request of chat 1 is in flight with the system turn and a full
\* history of MAX_HISTORY turns, another message of the chat was appended and
\* the history trimmed: the stored history no longer is the list's tail
SnapshotWitness ==
    \E t \in TaskIds :
        /\ tasks[t].pc = "groq"
        /\ Len(tasks[t].messages) = MAX_HISTORY + 1
        /\ Len(chat_histories[tasks[t].update.chat]) = MAX_HISTORY
        /\ chat_histories[tasks[t].update.chat][1] = tasks[t].messages[3]
        /\ chat_histories[tasks[t].update.chat] # Tail(tasks[t].messages)

----------------------------------------------------------------------------
(* C16 *)

\* h2 holds for every chat but c what h holds: the same chats, the same turns
SameButChat(h, h2, c) ==
    /\ DOMAIN h2 \ {c} = DOMAIN h \ {c}
    /\ \A d \in DOMAIN h \ {c} : h2[d] = h[d]

\* C16: an operation on chat c (a step of the handler of a message, /reset or
\* /start of chat c; an append with its trim, a clear) leaves the history of
\* every other chat as it was, however the handlers of the chats interleave.
OtherChatsUntouched ==
    [][/\ \A t \in 1..Len(tasks') :
              Stepped(t)
                  => IF tasks'[t].update.valid
                     THEN SameButChat(chat_histories, chat_histories', tasks'[t].update.chat)
                     ELSE chat_histories' = chat_histories
       /\ (\A t \in 1..Len(tasks') : ~Stepped(t)) => chat_histories' = chat_histories
       /\ \A c \in Chats :
              /\ \A role \in Roles :
                     SameButChat(chat_histories,
                                 add_to_history(chat_histories, c, role, <<120>>), c)
              /\ SameButChat(chat_histories, clear_history(chat_histories, c), c)
              /\ SameButChat(chat_histories, setdefault(chat_histories, c), c)]_vars

\* Chat 2 got its exchange and keeps it while a message of chat 1 was
\* appended to chat 1's full history, which was trimmed
OtherChatsWitness ==
    \E t1 \in TaskIds : \E t2 \in TaskIds :
        /\ tasks[t1].update.chat = 1 /\ tasks[t2].update.chat = 2
        /\ tasks[t2].outcome = "reply"
        /\ tasks[t1].pc = "groq"
        /\ tasks[t1].len_before = MAX_HISTORY
        /\ chat_histories[1] = Tail(tasks[t1].messages)
        /\ chat_histories[1][1] = Exchanges(MAX_HISTORY)[2]
        /\ chat_histories[2] = <<Turn("user", tasks[t2].update.text),
                                 Turn("assistant", tasks[t2].model_reply)>>

----------------------------------------------------------------------------
(* C17 *)

\* C17 as stated: ask_groq appends the user's turn before the completion
\* call, so the chat's history grows by exactly that turn, subject to the cap;
\* when the call fails it changes no history: the user's turn stays, no
\* assistant turn is stored, and the fallback string is a stored turn in no
\* chat's history.
FailureStoresNoTurn ==
    [][/\ \A t \in TaskIds :
              LET rec == tasks[t]
                  c == rec.update.chat
                  before == get_history(chat_histories, c)
                  after == get_history(chat_histories', c)
                  user_turn == Turn("user", rec.update.text)
              IN  /\ (rec.pc = "typing" /\ tasks'[t].pc = "groq")
                         => /\ after = LastN(Append(before, user_turn), MAX_HISTORY)
                            /\ Len(after) = Min(Len(before) + 1, MAX_HISTORY)
                  /\ (rec.pc = "groq" /\ tasks'[t].outcome = "fallback")
                         => /\ chat_histories' = chat_histories
                            /\ tasks'[t].reply = FALLBACK
                            /\ tasks'[t].emitted = <<FALLBACK>>
                            /\ before = Tail(rec.messages)
                                   => /\ after = Tail(rec.messages)
                                      /\ LastTurn(after) = user_turn
       /\ \A c \in DOMAIN chat_histories' :
              \A k \in 1..Len(chat_histories'[c]) :
                  chat_histories'[c][k].content # FALLBACK]_vars

\* C17, amended: ask_groq appends the user's turn before the completion call,
\* so the chat's history grows by exactly that turn, subject to the cap; when
\* the call fails it changes no history: the user's turn stays and no
\* assistant turn is stored.  The fallback string is stored only as any other
\* text is: as the user turn of a message with that very text, or as the
\* assistant turn of a reply with that very text that the model returned;
\* never because a call failed.
FailureWritesNothing ==
    [][/\ \A t \in TaskIds :
              LET rec == tasks[t]
                  c == rec.update.chat
                  before == get_history(chat_histories, c)
                  after == get_history(chat_histories', c)
                  user_turn == Turn("user", rec.update.text)
              IN  /\ (rec.pc = "typing" /\ tasks'[t].pc = "groq")
                         => /\ after = LastN(Append(before, user_turn), MAX_HISTORY)
                            /\ Len(after) = Min(Len(before) + 1, MAX_HISTORY)
                  /\ (rec.pc = "groq" /\ tasks'[t].outcome = "fallback")
                         => /\ chat_histories' = chat_histories
                            /\ tasks'[t].reply = FALLBACK
                            /\ tasks'[t].emitted = <<FALLBACK>>
                            /\ before = Tail(rec.messages)
                                   => /\ after = Tail(rec.messages)
                                      /\ LastTurn(after) = user_turn
       /\ \A c \in DOMAIN chat_histories' :
              \A k \in 1..Len(chat_histories'[c]) :
                  LET turn == chat_histories'[c][k]
                  IN  turn.content = FALLBACK
                          => \E t \in 1..Len(tasks') :
                                 /\ tasks'[t].update.chat = c
                                 /\ IF turn.role = "user"
                                    THEN /\ tasks'[t].update.text = FALLBACK
                                         /\ tasks'[t].handled
                                    ELSE /\ tasks'[t].outcome = "reply"
                                         /\ tasks'[t].model_reply = FALLBACK]_vars

\* The completion call failed for a message, with the text of the fallback
\* string, sent to a chat with a full history: the fallback went out, the
\* history is the old one without its oldest turn and ends with the user's
\* turn, the only stored turn with that text
FailureWitness ==
    \E t \in TaskIds :
        /\ tasks[t].outcome = "fallback"
        /\ tasks[t].pc = "done" /\ tasks[t].error = "none"
        /\ tasks[t].emitted = <<FALLBACK>>
        /\ tasks[t].update.text = FALLBACK
        /\ tasks[t].len_before = MAX_HISTORY
        /\ chat_histories[tasks[t].update.chat]
               = Append(Tail(Exchanges(MAX_HISTORY)), Turn("user", FALLBACK))

====
